---- MODULE Spec2Model ----
(***************************************************************************)
(* The streaming chat session engine of the BizAssist frontend             *)
(* (frontend/src/store/chatStore.ts): the zustand store, sendMessage with  *)
(* its line-framed stream decoder and event dispatcher, the post-turn      *)
(* reconciliation fetch, setActiveChat and loadMoreMessages.               *)
(*                                                                         *)
(* JavaScript runs one callback at a time: every action below is one       *)
(* synchronous run of store code between two awaits.  The frames of one    *)
(* chunk are dispatched one per step (ProcessLine); no other callback is   *)
(* interleaved while a chunk is being dispatched (InLoop).                 *)
(***************************************************************************)
EXTENDS Integers, Sequences, FiniteSets, TLC

(***************************************************************************)
(* Bounds of the model.                                                    *)
(***************************************************************************)
MaxLines == 3
MaxTicks == 1
MaxOps == 3

(***************************************************************************)
(* Program constants.                                                      *)
(***************************************************************************)
PageSize == 10

None == "null"

Sends == {1, 2}

ChatIds == {"A", "B"}

NewChatId == "N"

\* Date.now() at the first step of the model; every message the server
\* already holds is older.
T0 == 20

\* Date.now().toString() / (Date.now() + 1).toString(): decimal strings.
\* Server ids are kept below LocalBase, so the two id spaces are disjoint.
LocalBase == 1000

LocalId(t) == LocalBase + t

IsLocal(id) == id >= LocalBase

(***************************************************************************)
(* Messages and the server's history.                                      *)
(***************************************************************************)
Msg(id, role, content, tools, at) ==
    [id |-> id, role |-> role, content |-> content, tool_calls |-> tools, created_at |-> at]

\* Chat B holds seven old messages, chat A twelve newer ones; ids of stored
\* messages are handed out in creation order.
InitServer ==
    [c \in ChatIds \cup {NewChatId} |->
        IF c = "B" THEN [i \in 1..7 |-> Msg(i, IF i % 2 = 1 THEN "user" ELSE "assistant", "h", <<>>, i)]
        ELSE IF c = "A" THEN [i \in 1..12 |-> Msg(i + 7, IF i % 2 = 1 THEN "user" ELSE "assistant", "h", <<>>, i + 7)]
        ELSE <<>>]

Ids(ms) == {ms[i].id : i \in 1..Len(ms)}

IndexOf(ms, id) == CHOOSE i \in 1..Len(ms) : ms[i].id = id

LastN(ms, n) == IF Len(ms) <= n THEN ms ELSE SubSeq(ms, Len(ms) - n + 1, Len(ms))

\* no `before` parameter in the query
NoCursor == 0

\* GET /chat/{id}/messages?limit=10 and ?before=<id>&limit=10: the most
\* recent `limit` messages, or the `limit` messages just before the cursor,
\* oldest first.  A cursor the server does not know selects nothing.
ServerPage(hist, cursor) ==
    IF cursor = NoCursor THEN LastN(hist, PageSize)
    ELSE IF cursor \in Ids(hist) THEN LastN(SubSeq(hist, 1, IndexOf(hist, cursor) - 1), PageSize)
    ELSE <<>>

HasMoreFlags == {"true", "false", "absent"}

\* without the flag, the distinct ids of the page are counted
HasMoreOfDistinct(flag, msgs) ==
    IF flag = "absent" THEN Cardinality(Ids(msgs)) >= PageSize ELSE flag = "true"

\* data.has_more ?? msgs.length >= 10
HasMoreOf(flag, msgs) ==
    IF flag = "absent" THEN Len(msgs) >= PageSize ELSE flag = "true"

\* msgs.filter(m => { if (seen.has(m.id)) return false; seen.add(m.id); return true; })
RECURSIVE DedupFrom(_, _)
DedupFrom(ms, seen) ==
    IF ms = <<>> THEN <<>>
    ELSE IF Head(ms).id \in seen THEN DedupFrom(Tail(ms), seen)
    ELSE <<Head(ms)>> \o DedupFrom(Tail(ms), seen \cup {Head(ms).id})

\* of two entries with one id the later one is kept
UniqueKeepsLast(ms) ==
    LET Rev(q) == [i \in 1..Len(q) |-> q[Len(q) + 1 - i]]
    IN Rev(DedupFrom(Rev(ms), {}))

Unique(ms) == DedupFrom(ms, {})

\* Lines 72-78 and 320-326: the tool calls of a fetched message are rebuilt,
\* a missing status becoming 'completed'
NormalizeToolCalls(m) ==
    [m EXCEPT !.tool_calls =
        [i \in 1..Len(@) |->
            [name |-> @[i].name,
             status |-> IF @[i].status = "" THEN "completed" ELSE @[i].status,
             citations |-> @[i].citations]]]

Normalized(ms) == [i \in 1..Len(ms) |-> NormalizeToolCalls(ms[i])]

\* what the GET for the most recent page may answer: the page, or the page
\* with one of its entries sent twice
FreshPages(hist) ==
    LET page == ServerPage(hist, NoCursor) IN
    IF page = <<>> THEN {page} ELSE {page, Append(page, page[1])}

\* olderMessages.filter(m => !existingIds.has(m.id))
NotIn(ms, existing) == SelectSeq(ms, LAMBDA m : m.id \notin existing)

(***************************************************************************)
(* The wire: lines of the response body and their split into chunks.       *)
(***************************************************************************)
\* kind: the event type of a JSON payload, or what else the line is.
\* content: token/error text, the raw payload of a malformed frame, or the
\* title of a title_update.  name: tool name, or chat_id of a title_update.
Line(kind, content, name, cits) ==
    [kind |-> kind, content |-> content, name |-> name, citations |-> cits]

NoCits == "undefined"

Tok(c) == Line("token", c, "", NoCits)

Err(c) == Line("error", c, "", NoCits)

DoneEv == Line("done", "", "", NoCits)

Sentinel == Line("sentinel", "", "", NoCits)

Malformed(p) == Line("malformed", p, "", NoCits)

ToolStart(n) == Line("tool_start", "", n, NoCits)

ToolEnd(n) == Line("tool_end", "", n, NoCits)

Source(n, cits) == Line("source", "", n, cits)

TitleUpdate(c, t) == Line("title_update", t, c, NoCits)

\* a line that does not start with `data:` after trimming
Comment == Line("comment", "", "", NoCits)

\* `data:` followed by nothing
EmptyData == Line("empty", "", "", NoCits)

\* the rest of a line whose beginning was thrown away with the buffer
PartialLine == Line("partial", "", "", NoCits)

TerminalKinds == {"sentinel", "done", "error"}

\* Line i of a body travels as two pieces: atom 2i-1 is its beginning,
\* atom 2i its end together with the newline.  A chunk is a run of atoms.
Atoms(src) == [a \in 1..(2 * Len(src)) |-> a]

RECURSIVE SplitAt(_, _, _)
SplitAt(text, cur, acc) ==
    IF text = <<>> THEN [lines |-> acc, rest |-> cur]
    ELSE IF Head(text) % 2 = 0
         THEN SplitAt(Tail(text), <<>>, Append(acc, Append(cur, Head(text))))
         ELSE SplitAt(Tail(text), Append(cur, Head(text)), acc)

\* const lines = buffer.split('\n'); buffer = lines.pop() ?? '';
SplitLines(text) == SplitAt(text, <<>>, <<>>)

\* rawLine.trim(), the `data:` test and the payload after the prefix: a
\* line is readable only if both of its pieces are there.
DecodeLine(src, seg) == IF Len(seg) = 2 THEN src[seg[2] \div 2] ELSE PartialLine

DecodeLines(src, segs) == [i \in 1..Len(segs) |-> DecodeLine(src, segs[i])]

(***************************************************************************)
(* State.                                                                  *)
(***************************************************************************)
VARIABLES
    chats,              \* store: Chat[] as <<[id, title]>>
    activeChatId,       \* store
    messages,           \* store: the loaded window
    isLoading,          \* store
    streamingMessage,   \* store
    activeTools,        \* store
    hasMoreMessages,    \* store
    isLoadingMore,      \* store
    snd,                \* the sendMessage invocations and their locals
    initReqs,           \* setActiveChat page fetches in flight
    moreReqs,           \* loadMoreMessages page fetches in flight
    server,             \* the backend's stored messages per chat
    now,                \* Date.now()
    calls               \* ops: calls of store operations so far; more: calls of
                        \* loadMoreMessages; fetches: requests it issued; dropped:
                        \* its calls made while isLoadingMore was true; refused: its
                        \* calls that returned at the guard since the last request or
                        \* chat switch, with a chat active and no fetch in flight;
                        \* lastMore: how its last fetch in this session ended;
                        \* lastRecon: how the last background refresh ended;
                        \* lastSend: how the last POST of sendMessage was answered;
                        \* page: the answer to a page fetch that the last step
                        \* took, if it took one (which fetch, its has_more, and the
                        \* number of messages it carried);
                        \* unauthorized: calls of the unauthorized handler;
                        \* deletes: the chats whose DELETE, sent by deleteChat,
                        \* is not answered yet

store == <<chats, activeChatId, messages, isLoading, streamingMessage, activeTools,
           hasMoreMessages, isLoadingMore>>

vars == <<chats, activeChatId, messages, isLoading, streamingMessage, activeTools,
          hasMoreMessages, isLoadingMore, snd, initReqs, moreReqs, server, now, calls>>

\* const pendingToolMeta: Record<string, { citations?: string[] }> = {}
EmptyMeta == [n \in {} |-> NoCits]

MetaPut(meta, n, c) == [x \in (DOMAIN meta) \cup {n} |-> IF x = n THEN c ELSE meta[x]]

\* pendingToolMeta[String(toolName)] || {}
MetaGet(meta, n) == IF n \in DOMAIN meta THEN meta[n] ELSE NoCits

Tool(name, status, cits) == [name |-> name, status |-> status, citations |-> cits]

NoMsg == Msg(0, "none", "", <<>>, 0)

NoSnap == [at |-> 0, isLoading |-> FALSE, streamingMessage |-> "", activeTools |-> <<>>,
           chats |-> <<>>]

IdleSend ==
    [pc |-> "idle", activeChatId |-> None, src |-> <<>>, pos |-> 0,
     buffer |-> <<>>, lines |-> <<>>, hasReceivedFirstToken |-> FALSE,
     pendingToolMeta |-> EmptyMeta, finalChatId |-> None,
     \* history of the turn, kept for the properties only
     userMsg |-> NoMsg, aiMsg |-> NoMsg, applied |-> <<>>, term |-> NoSnap]

\* the invocation has returned (its promise is resolved); its locals are gone
Returned == [IdleSend EXCEPT !.pc = "done"]

NoPage == [kind |-> "none", flag |-> "absent", count |-> 0]

Init ==
    /\ chats = <<>>
    /\ activeChatId = None
    /\ messages = <<>>
    /\ isLoading = FALSE
    /\ streamingMessage = ""
    /\ activeTools = <<>>
    /\ hasMoreMessages = TRUE
    /\ isLoadingMore = FALSE
    /\ snd = [s \in Sends |-> IdleSend]
    /\ initReqs = {}
    /\ moreReqs = {}
    /\ server = InitServer
    /\ now = T0
    /\ calls = [ops |-> 0, more |-> 0, fetches |-> 0, dropped |-> 0, refused |-> 0,
                lastMore |-> "none", lastRecon |-> "none", lastSend |-> "none",
                page |-> NoPage, unauthorized |-> 0, deletes |-> {}]

\* a chunk is being dispatched: the for loop of sendMessage is running
InLoop == \E s \in Sends : snd[s].pc = "lines"

NextServerId == 1 + Len(server["A"]) + Len(server["B"]) + Len(server[NewChatId])

(***************************************************************************)
(* fetchChats.                                                             *)
(***************************************************************************)
\* the chat list the backend answers with
ServerChats == <<[id |-> "A", title |-> "tA"], [id |-> "B", title |-> "tB"]>>

\* Lines 46-53: the chat list is answered (or the request fails).
FetchChatsResponse(ok) ==
    /\ ~InLoop
    /\ chats' = (IF ok THEN ServerChats ELSE chats)
    /\ calls' = [calls EXCEPT !.page = NoPage]
    /\ UNCHANGED <<activeChatId, messages, isLoading, streamingMessage, activeTools,
                   hasMoreMessages, isLoadingMore, snd, initReqs, moreReqs, server, now>>

(***************************************************************************)
(* sendMessage.                                                            *)
(***************************************************************************)
UserText == "q"

\* the tool list of the turn before is not cleared
BeginTurnKeepsTools(s, chat, t) ==
    LET userMsg == Msg(LocalId(t), "user", UserText, <<>>, t) IN
    /\ t \in now..(T0 + MaxTicks)
    /\ now' = t
    /\ isLoading' = TRUE
    /\ streamingMessage' = ""
    /\ activeTools' = activeTools
    /\ messages' = Append(messages, userMsg)
    /\ snd' = [snd EXCEPT ![s] = [IdleSend EXCEPT !.pc = "posting", !.activeChatId = chat,
                                                  !.userMsg = userMsg]]

\* Lines 105-125: reset of the turn state and the optimistic user message.
\* t is what Date.now() returns: the clock never runs backwards.
BeginTurn(s, chat, t) ==
    LET userMsg == Msg(LocalId(t), "user", UserText, <<>>, t) IN
    /\ t \in now..(T0 + MaxTicks)
    /\ now' = t
    /\ isLoading' = TRUE
    /\ streamingMessage' = ""
    /\ activeTools' = <<>>
    /\ messages' = Append(messages, userMsg)
    /\ snd' = [snd EXCEPT ![s] = [IdleSend EXCEPT !.pc = "posting", !.activeChatId = chat,
                                                  !.userMsg = userMsg]]

\* sendMessage is called; without an active chat it first awaits createChat.
\* A slot whose invocation has returned serves the next call.
SendStart(s, t) ==
    /\ ~InLoop
    /\ snd[s].pc \in {"idle", "done", "rejected"}
    /\ calls.ops < MaxOps
    /\ calls' = [calls EXCEPT !.ops = @ + 1, !.page = NoPage]
    /\ IF activeChatId = None
       THEN /\ snd' = [snd EXCEPT ![s] = [IdleSend EXCEPT !.pc = "creating"]]
            /\ UNCHANGED <<isLoading, streamingMessage, activeTools, messages, now>>
       ELSE BeginTurn(s, activeChatId, t)
    /\ UNCHANGED <<chats, activeChatId, hasMoreMessages, isLoadingMore, initReqs, moreReqs,
                   server>>

\* createChat (lines 87-97) answers; on success sendMessage goes on at once.
CreateChatResponse(s, ok, t) ==
    /\ ~InLoop
    /\ snd[s].pc = "creating"
    /\ IF ok
       THEN /\ chats' = <<[id |-> NewChatId, title |-> "New Chat"]>> \o chats
            /\ activeChatId' = NewChatId
            /\ BeginTurn(s, NewChatId, t)
       ELSE /\ snd' = [snd EXCEPT ![s].pc = "rejected"]
            /\ UNCHANGED <<chats, activeChatId, isLoading, streamingMessage, activeTools,
                           messages, now>>
    /\ calls' = [calls EXCEPT !.page = NoPage]
    /\ UNCHANGED <<hasMoreMessages, isLoadingMore, initReqs, moreReqs, server>>

\* the outer catch shows the error text but leaves the indicator as it is
CatchKeepsLoading(s, msg) ==
    /\ isLoading' = isLoading
    /\ streamingMessage' = (IF streamingMessage # "" THEN streamingMessage ELSE msg)
    /\ snd' = [snd EXCEPT ![s] = Returned]

\* Lines 335-339: the outer catch.
Catch(s, msg) ==
    /\ isLoading' = FALSE
    /\ streamingMessage' = (IF streamingMessage # "" THEN streamingMessage ELSE msg)
    /\ snd' = [snd EXCEPT ![s] = Returned]

Outcomes == {"ok", "401", "notok", "nobody", "throw"}

\* what a non-OK response carries: JSON with a detail member, JSON without
\* one, text that is not JSON, or nothing
ErrBodies == {"detail", "json", "text", "empty"}

\* Lines 162-173: the values errText can have at line 174.  response.text()
\* is asked after response.json() has read the body: it hands over the text
\* or rejects because the body is used, and errText then keeps its initial
\* value.
ErrorText(body) ==
    CASE body = "detail" -> {"detail"}
      [] body = "json" -> {"{}"}
      [] body = "text" -> {"raw", "Request failed."}
      [] body = "empty" -> {"", "Request failed."}

ErrTexts == UNION {ErrorText(body) : body \in ErrBodies}

\* a 401 is taken like a thrown fetch: the unauthorized handler is not called
SendResponseNoHandler(s, outcome, errText, src) ==
    /\ ~InLoop
    /\ snd[s].pc = "posting"
    /\ calls' = [calls EXCEPT !.lastSend = outcome, !.page = NoPage]
    /\ CASE outcome = "throw" ->
              /\ Catch(s, "Failed to fetch")
              /\ UNCHANGED server
         [] outcome = "401" ->
              /\ Catch(s, "Unauthorized")
              /\ UNCHANGED server
         [] outcome = "notok" ->
              /\ isLoading' = FALSE
              /\ streamingMessage' = (IF errText # "" THEN errText ELSE "Request failed.")
              /\ snd' = [snd EXCEPT ![s] = Returned]
              /\ UNCHANGED server
         [] outcome = "nobody" ->
              /\ isLoading' = FALSE
              /\ snd' = [snd EXCEPT ![s] = Returned]
              /\ UNCHANGED streamingMessage
              /\ server' = [server EXCEPT ![snd[s].activeChatId] =
                               Append(@, Msg(NextServerId, "user", UserText, <<>>, now))]
         [] outcome = "ok" ->
              /\ snd' = [snd EXCEPT ![s].pc = "read", ![s].src = src]
              /\ server' = [server EXCEPT ![snd[s].activeChatId] =
                               Append(@, Msg(NextServerId, "user", UserText, <<>>, now))]
              /\ UNCHANGED <<isLoading, streamingMessage>>
    /\ UNCHANGED <<chats, activeChatId, messages, activeTools, hasMoreMessages,
                   isLoadingMore, initReqs, moreReqs, now>>

\* Lines 154-187: the POST is answered.
SendResponse(s, outcome, errText, src) ==
    /\ ~InLoop
    /\ snd[s].pc = "posting"
    /\ calls' = [calls EXCEPT !.lastSend = outcome, !.page = NoPage,
                              !.unauthorized = IF outcome = "401" THEN @ + 1 ELSE @]
    /\ CASE outcome = "throw" ->
              /\ Catch(s, "Failed to fetch")
              /\ UNCHANGED server
         [] outcome = "401" ->
              \* triggerUnauthorized(), then the throw into the outer catch
              /\ Catch(s, "Unauthorized")
              /\ UNCHANGED server
         [] outcome = "notok" ->
              \* set({isLoading: false, streamingMessage: errText || 'Request failed.'})
              \* and then the throw into the outer catch, which finds
              \* streamingMessage non-empty and returns
              /\ isLoading' = FALSE
              /\ streamingMessage' = (IF errText # "" THEN errText ELSE "Request failed.")
              /\ snd' = [snd EXCEPT ![s] = Returned]
              /\ UNCHANGED server
         [] outcome = "nobody" ->
              /\ isLoading' = FALSE
              /\ snd' = [snd EXCEPT ![s] = Returned]
              /\ UNCHANGED streamingMessage
              /\ server' = [server EXCEPT ![snd[s].activeChatId] =
                               Append(@, Msg(NextServerId, "user", UserText, <<>>, now))]
         [] outcome = "ok" ->
              /\ snd' = [snd EXCEPT ![s].pc = "read", ![s].src = src]
              /\ server' = [server EXCEPT ![snd[s].activeChatId] =
                               Append(@, Msg(NextServerId, "user", UserText, <<>>, now))]
              /\ UNCHANGED <<isLoading, streamingMessage>>
    /\ UNCHANGED <<chats, activeChatId, messages, activeTools, hasMoreMessages,
                   isLoadingMore, initReqs, moreReqs, now>>

\* Lines 190-195: reader.read() yields a chunk of k more pieces of the body.
ReadChunk(s, k) ==
    LET r == snd[s]
        text == r.buffer \o SubSeq(Atoms(r.src), r.pos + 1, r.pos + k)
        sp == SplitLines(text)
        ls == DecodeLines(r.src, sp.lines)
    IN
    /\ ~InLoop
    /\ r.pc = "read"
    /\ k >= 1
    /\ r.pos + k <= 2 * Len(r.src)
    /\ snd' = [snd EXCEPT ![s].pos = r.pos + k, ![s].buffer = sp.rest, ![s].lines = ls,
                          ![s].pc = IF ls = <<>> THEN "read" ELSE "lines"]
    /\ calls' = [calls EXCEPT !.page = NoPage]
    /\ UNCHANGED <<store, initReqs, moreReqs, server, now>>

\* The branches of the dispatcher (lines 208-284).  st carries the store
\* fields a frame can touch, the two locals hasReceivedFirstToken and
\* pendingToolMeta, and brk: whether the for loop is left by `break`.

\* the token is put in front of the buffer instead of behind it
OnTokenPrepend(l, st) ==
    [st EXCEPT !.isLoading = IF st.hasReceivedFirstToken THEN @ ELSE FALSE,
               !.hasReceivedFirstToken = TRUE,
               !.streamingMessage = l.content \o @]

\* Lines 211-216
OnToken(l, st) ==
    [st EXCEPT !.isLoading = IF st.hasReceivedFirstToken THEN @ ELSE FALSE,
               !.hasReceivedFirstToken = TRUE,
               !.streamingMessage = @ \o l.content]

\* Lines 218-229, but an entry of that name is started anew where one exists
OnToolStartRestart(l, st) ==
    IF l.name = "" THEN st
    ELSE IF \E i \in 1..Len(st.activeTools) : st.activeTools[i].name = l.name
    THEN [st EXCEPT !.activeTools =
             [i \in 1..Len(@) |-> IF @[i].name = l.name
                                    THEN [@[i] EXCEPT !.status = "started"]
                                    ELSE @[i]]]
    ELSE [st EXCEPT !.activeTools =
             Append(@, Tool(l.name, "started", MetaGet(st.pendingToolMeta, l.name)))]

\* Lines 218-229
OnToolStart(l, st) ==
    IF l.name = "" THEN st
    ELSE [st EXCEPT !.activeTools =
             Append(@, Tool(l.name, "started", MetaGet(st.pendingToolMeta, l.name)))]

\* Lines 231-239
OnToolEnd(l, st) ==
    IF l.name = "" THEN st
    ELSE [st EXCEPT !.activeTools =
             [i \in 1..Len(@) |-> IF @[i].name = l.name
                                    THEN [@[i] EXCEPT !.status = "completed"]
                                    ELSE @[i]]]

\* the citations are stashed only; an entry that exists is not patched
OnSourceStashOnly(l, st) ==
    LET toolName == IF l.name = "" THEN "Source" ELSE l.name IN
    [st EXCEPT !.pendingToolMeta = MetaPut(@, toolName, l.citations)]

\* Lines 241-251
OnSource(l, st) ==
    LET toolName == IF l.name = "" THEN "Source" ELSE l.name IN
    [st EXCEPT !.pendingToolMeta = MetaPut(@, toolName, l.citations),
               !.activeTools =
             [i \in 1..Len(@) |-> IF @[i].name = toolName
                                    THEN [@[i] EXCEPT !.citations = l.citations]
                                    ELSE @[i]]]

\* every chat of the list gets the new title
OnTitleUpdateAll(l, st) ==
    IF l.name = "" \/ l.content = "" THEN st
    ELSE [st EXCEPT !.chats = [i \in 1..Len(@) |-> [@[i] EXCEPT !.title = l.content]]]

\* Lines 253-263
OnTitleUpdate(l, st) ==
    IF l.name = "" \/ l.content = "" THEN st
    ELSE [st EXCEPT !.chats =
             [i \in 1..Len(@) |-> IF @[i].id = l.name
                                    THEN [@[i] EXCEPT !.title = l.content]
                                    ELSE @[i]]]

\* Lines 265-272
OnError(l, st) ==
    LET errorText == IF l.content # "" THEN l.content ELSE "Something went wrong." IN
    [st EXCEPT !.isLoading = IF st.hasReceivedFirstToken THEN @ ELSE FALSE,
               !.streamingMessage = IF @ # "" THEN @ ELSE errorText,
               !.brk = TRUE]

\* the payload that does not parse is dropped and ends the loop
OnMalformedDrop(l, st) == [st EXCEPT !.brk = TRUE]

\* Lines 278-284: JSON.parse threw
OnMalformed(l, st) ==
    [st EXCEPT !.isLoading = IF st.hasReceivedFirstToken THEN @ ELSE FALSE,
               !.hasReceivedFirstToken = TRUE,
               !.streamingMessage = @ \o l.content]

\* a line that is no frame is taken as a sign of life: isLoading is cleared
DispatchAnyLine(l, st) ==
    CASE l.kind \in {"comment", "partial", "empty"} -> [st EXCEPT !.isLoading = FALSE]
      [] l.kind = "sentinel" -> [st EXCEPT !.brk = TRUE]
      [] l.kind = "token" -> OnToken(l, st)
      [] l.kind = "tool_start" -> OnToolStart(l, st)
      [] l.kind = "tool_end" -> OnToolEnd(l, st)
      [] l.kind = "source" -> OnSource(l, st)
      [] l.kind = "title_update" -> OnTitleUpdate(l, st)
      [] l.kind = "error" -> OnError(l, st)
      [] l.kind = "done" -> [st EXCEPT !.brk = TRUE]
      [] l.kind = "malformed" -> OnMalformed(l, st)
      [] OTHER -> st

\* What one line of a chunk does (lines 197-285).
Dispatch(l, st) ==
    CASE l.kind \in {"comment", "partial", "empty"} -> st
      [] l.kind = "sentinel" -> [st EXCEPT !.brk = TRUE]
      [] l.kind = "token" -> OnToken(l, st)
      [] l.kind = "tool_start" -> OnToolStart(l, st)
      [] l.kind = "tool_end" -> OnToolEnd(l, st)
      [] l.kind = "source" -> OnSource(l, st)
      [] l.kind = "title_update" -> OnTitleUpdate(l, st)
      [] l.kind = "error" -> OnError(l, st)
      [] l.kind = "done" -> [st EXCEPT !.brk = TRUE]
      [] l.kind = "malformed" -> OnMalformed(l, st)
      [] OTHER -> st

\* One iteration of `for (const rawLine of lines)`.
ProcessLine(s) ==
    LET r == snd[s]
        l == Head(r.lines)
        st == Dispatch(l, [isLoading |-> isLoading, streamingMessage |-> streamingMessage,
                           activeTools |-> activeTools, chats |-> chats,
                           hasReceivedFirstToken |-> r.hasReceivedFirstToken,
                           pendingToolMeta |-> r.pendingToolMeta, brk |-> FALSE])
        rest == IF st.brk THEN <<>> ELSE Tail(r.lines)
        applied == Append(r.applied, l)
    IN
    /\ r.pc = "lines"
    /\ isLoading' = st.isLoading
    /\ streamingMessage' = st.streamingMessage
    /\ activeTools' = st.activeTools
    /\ chats' = st.chats
    /\ snd' = [snd EXCEPT ![s].lines = rest,
                          ![s].buffer = IF st.brk THEN <<>> ELSE @,
                          ![s].hasReceivedFirstToken = st.hasReceivedFirstToken,
                          ![s].pendingToolMeta = st.pendingToolMeta,
                          ![s].pc = IF rest = <<>> THEN "read" ELSE "lines",
                          ![s].applied = applied,
                          ![s].term = IF r.term.at = 0 /\ l.kind \in TerminalKinds
                                      THEN [at |-> Len(applied), isLoading |-> st.isLoading,
                                            streamingMessage |-> st.streamingMessage,
                                            activeTools |-> st.activeTools, chats |-> st.chats]
                                      ELSE @]
    /\ calls' = [calls EXCEPT !.page = NoPage]
    /\ UNCHANGED <<activeChatId, messages, hasMoreMessages, isLoadingMore, initReqs, moreReqs,
                   server, now>>

\* reader.read() throws: the outer catch.
ReadFail(s) ==
    /\ ~InLoop
    /\ snd[s].pc = "read"
    /\ Catch(s, "network error")
    /\ calls' = [calls EXCEPT !.page = NoPage]
    /\ UNCHANGED <<chats, activeChatId, messages, activeTools, hasMoreMessages, isLoadingMore,
                   initReqs, moreReqs, server, now>>

\* the assistant message is built without the tool list of the turn
StreamCloseDropsTools(s, t) ==
    LET r == snd[s]
        finalChatId == activeChatId
        aiMsg == Msg(LocalId(t + 1), "assistant", streamingMessage, <<>>, t)
    IN
    /\ ~InLoop
    /\ t \in now..(T0 + MaxTicks)
    /\ now' = t
    /\ r.pc = "read"
    /\ r.pos = 2 * Len(r.src)
    /\ isLoading' = FALSE
    /\ messages' = Append(messages, aiMsg)
    /\ streamingMessage' = ""
    /\ activeTools' = <<>>
    /\ snd' = [snd EXCEPT ![s] = IF finalChatId # None
                                 THEN [r EXCEPT !.pc = "recon", !.finalChatId = finalChatId,
                                                !.aiMsg = aiMsg]
                                 ELSE Returned]
    /\ server' = [server EXCEPT ![r.activeChatId] =
                     Append(@, Msg(NextServerId, "assistant", "r", activeTools, t))]
    /\ calls' = [calls EXCEPT !.page = NoPage]
    /\ UNCHANGED <<chats, activeChatId, hasMoreMessages, isLoadingMore, initReqs, moreReqs>>

\* Lines 191 and 288-307: the body has ended (`done` of reader.read()); the
\* assistant message is appended and the background refresh is requested.
StreamClose(s, t) ==
    LET r == snd[s]
        finalChatId == activeChatId
        aiMsg == Msg(LocalId(t + 1), "assistant", streamingMessage, activeTools, t)
    IN
    /\ ~InLoop
    /\ t \in now..(T0 + MaxTicks)
    /\ now' = t
    /\ r.pc = "read"
    /\ r.pos = 2 * Len(r.src)
    /\ isLoading' = FALSE
    /\ messages' = Append(messages, aiMsg)
    /\ streamingMessage' = ""
    /\ activeTools' = <<>>
    /\ snd' = [snd EXCEPT ![s] = IF finalChatId # None
                                 THEN [r EXCEPT !.pc = "recon", !.finalChatId = finalChatId,
                                                !.aiMsg = aiMsg]
                                 ELSE Returned]
    /\ server' = [server EXCEPT ![r.activeChatId] =
                     Append(@, Msg(NextServerId, "assistant", "r", activeTools, t))]
    /\ calls' = [calls EXCEPT !.page = NoPage]
    /\ UNCHANGED <<chats, activeChatId, hasMoreMessages, isLoadingMore, initReqs, moreReqs>>

\* a refresh that fails is thrown on into the outer catch
ReconResponseFailCaught(s, ok, flag) ==
    LET r == snd[s] IN
    /\ ~InLoop
    /\ r.pc = "recon"
    /\ IF ok
       THEN /\ \E fresh \in FreshPages(server[r.finalChatId]) :
                   /\ messages' = Normalized(Unique(fresh))
                   /\ hasMoreMessages' = HasMoreOf(flag, fresh)
                   /\ calls' = [calls EXCEPT !.lastRecon = "ok",
                                             !.page = [kind |-> "fresh", flag |-> flag,
                                                       count |-> Len(fresh)]]
            /\ snd' = [snd EXCEPT ![s] = Returned]
            /\ UNCHANGED <<isLoading, streamingMessage>>
       ELSE /\ Catch(s, "Failed to fetch")
            /\ calls' = [calls EXCEPT !.lastRecon = "failed", !.page = NoPage]
            /\ UNCHANGED <<messages, hasMoreMessages>>
    /\ UNCHANGED <<chats, activeChatId, activeTools, isLoadingMore, initReqs, moreReqs,
                   server, now>>

\* Lines 308-332: the background refresh is answered (or fails).
ReconResponse(s, ok, flag) ==
    LET r == snd[s] IN
    /\ ~InLoop
    /\ r.pc = "recon"
    /\ IF ok
       THEN \E fresh \in FreshPages(server[r.finalChatId]) :
                /\ messages' = Normalized(Unique(fresh))
                /\ hasMoreMessages' = HasMoreOf(flag, fresh)
                /\ calls' = [calls EXCEPT !.lastRecon = "ok",
                                          !.page = [kind |-> "fresh", flag |-> flag,
                                                    count |-> Len(fresh)]]
       ELSE /\ calls' = [calls EXCEPT !.lastRecon = "failed", !.page = NoPage]
            /\ UNCHANGED <<messages, hasMoreMessages>>
    /\ snd' = [snd EXCEPT ![s] = Returned]
    /\ UNCHANGED <<chats, activeChatId, isLoading, streamingMessage, activeTools, isLoadingMore,
                   initReqs, moreReqs, server, now>>

(***************************************************************************)
(* setActiveChat.                                                          *)
(***************************************************************************)
\* the window of the previous session is left standing until the page arrives
SetActiveChatKeepsWindow(id) ==
    /\ ~InLoop
    /\ calls.ops < MaxOps
    /\ activeChatId' = id
    /\ streamingMessage' = ""
    /\ activeTools' = <<>>
    /\ hasMoreMessages' = TRUE
    /\ initReqs' = initReqs \cup {[n |-> calls.ops + 1, id |-> id]}
    /\ calls' = [calls EXCEPT !.ops = @ + 1, !.lastMore = "none", !.refused = 0,
                              !.page = NoPage]
    /\ UNCHANGED <<chats, messages, isLoading, isLoadingMore, snd, moreReqs, server, now>>

\* the switch also takes isLoadingMore down
SetActiveChatResetsMore(id) ==
    /\ ~InLoop
    /\ calls.ops < MaxOps
    /\ activeChatId' = id
    /\ messages' = <<>>
    /\ streamingMessage' = ""
    /\ activeTools' = <<>>
    /\ hasMoreMessages' = TRUE
    /\ isLoadingMore' = FALSE
    /\ initReqs' = initReqs \cup {[n |-> calls.ops + 1, id |-> id]}
    /\ calls' = [calls EXCEPT !.ops = @ + 1, !.lastMore = "none", !.refused = 0,
                              !.page = NoPage]
    /\ UNCHANGED <<chats, isLoading, snd, moreReqs, server, now>>

\* Lines 55-62: the session is reset and the first page is requested.
SetActiveChat(id) ==
    /\ ~InLoop
    /\ calls.ops < MaxOps
    /\ activeChatId' = id
    /\ messages' = <<>>
    /\ streamingMessage' = ""
    /\ activeTools' = <<>>
    /\ hasMoreMessages' = TRUE
    /\ initReqs' = initReqs \cup {[n |-> calls.ops + 1, id |-> id]}
    /\ calls' = [calls EXCEPT !.ops = @ + 1, !.lastMore = "none", !.refused = 0,
                              !.page = NoPage]
    /\ UNCHANGED <<chats, isLoading, isLoadingMore, snd, moreReqs, server, now>>

\* Lines 64-84: the first page is answered (or the fetch fails).
InitResponse(r, ok, flag) ==
    LET msgs == ServerPage(server[r.id], NoCursor) IN
    /\ ~InLoop
    /\ r \in initReqs
    /\ IF ok
       THEN /\ messages' = Normalized(Unique(msgs))
            /\ hasMoreMessages' = HasMoreOf(flag, msgs)
       ELSE UNCHANGED <<messages, hasMoreMessages>>
    /\ initReqs' = initReqs \ {r}
    /\ calls' = [calls EXCEPT !.page = IF ok THEN [kind |-> "first", flag |-> flag,
                                                   count |-> Len(msgs)]
                                        ELSE NoPage]
    /\ UNCHANGED <<chats, activeChatId, isLoading, streamingMessage, activeTools, isLoadingMore,
                   snd, moreReqs, server, now>>

(***************************************************************************)
(* loadMoreMessages.                                                       *)
(***************************************************************************)
\* a call goes on although a fetch is in flight
LoadMoreGuardNoFlight == activeChatId # None /\ hasMoreMessages

\* a call goes on although hasMoreMessages is false
LoadMoreGuardNoHasMore == activeChatId # None /\ ~isLoadingMore

\* Line 344
LoadMoreGuard == activeChatId # None /\ hasMoreMessages /\ ~isLoadingMore

\* Lines 342-356: the call; it returns at once unless the guard lets it by.
LoadMoreMessages ==
    /\ ~InLoop
    /\ calls.ops < MaxOps
    /\ IF LoadMoreGuard
       THEN /\ isLoadingMore' = TRUE
            /\ moreReqs' = moreReqs \cup
                   {[n |-> calls.ops + 1, chat |-> activeChatId,
                     cursor |-> IF messages = <<>> THEN NoCursor ELSE messages[1].id]}
       ELSE UNCHANGED <<isLoadingMore, moreReqs>>
    /\ calls' = [calls EXCEPT !.ops = @ + 1, !.more = @ + 1, !.page = NoPage,
                              !.fetches = IF LoadMoreGuard THEN @ + 1 ELSE @,
                              !.dropped = IF isLoadingMore THEN @ + 1 ELSE @,
                              !.refused = IF LoadMoreGuard THEN 0
                                          ELSE IF activeChatId # None /\ ~isLoadingMore
                                               THEN @ + 1 ELSE @]
    /\ UNCHANGED <<chats, activeChatId, messages, isLoading, streamingMessage, activeTools,
                   hasMoreMessages, snd, initReqs, server, now>>

\* the page is put in front as it came, without looking at the window
MergePageNoDedup(olderMessages, window) == olderMessages \o window

\* Lines 368-377: the merge of a non-empty page.
MergePage(olderMessages, window) == NotIn(olderMessages, Ids(window)) \o window

\* the empty page is not told apart: has_more decides as for any page
PageHasMoreByFlag(flag, olderMessages) == HasMoreOf(flag, olderMessages)

\* Lines 363-374: what hasMoreMessages becomes when a page has arrived.
PageHasMore(flag, olderMessages) ==
    IF Len(olderMessages) = 0 THEN FALSE ELSE HasMoreOf(flag, olderMessages)

\* a fetch that fails is sent once more
MoreResponseRetries(r, ok, flag) ==
    LET olderMessages == ServerPage(server[r.chat], r.cursor) IN
    /\ ~InLoop
    /\ r \in moreReqs
    /\ IF ~ok
       THEN /\ isLoadingMore' = (r.n < LocalBase)
            /\ moreReqs' = (moreReqs \ {r}) \cup
                               (IF r.n < LocalBase THEN {[r EXCEPT !.n = @ + LocalBase]} ELSE {})
            /\ UNCHANGED <<messages, hasMoreMessages>>
       ELSE /\ messages' = (IF Len(olderMessages) = 0 THEN messages
                                ELSE MergePage(olderMessages, messages))
            /\ hasMoreMessages' = PageHasMore(flag, olderMessages)
            /\ isLoadingMore' = FALSE
            /\ moreReqs' = moreReqs \ {r}
    /\ calls' = [calls EXCEPT !.lastMore = IF ~ok THEN "failed"
                                           ELSE IF Len(olderMessages) = 0 THEN "empty"
                                           ELSE "merged",
                              !.page = IF ok THEN [kind |-> "older", flag |-> flag,
                                                   count |-> Len(olderMessages)]
                                        ELSE NoPage]
    /\ UNCHANGED <<chats, activeChatId, isLoading, streamingMessage, activeTools, snd, initReqs,
                   server, now>>

\* a fetch that fails ends the pagination of the session
MoreResponseFailStops(r, ok, flag) ==
    LET olderMessages == ServerPage(server[r.chat], r.cursor) IN
    /\ ~InLoop
    /\ r \in moreReqs
    /\ IF ~ok
       THEN /\ isLoadingMore' = FALSE
            /\ hasMoreMessages' = FALSE
            /\ UNCHANGED messages
       ELSE /\ messages' = (IF Len(olderMessages) = 0 THEN messages
                                ELSE MergePage(olderMessages, messages))
            /\ hasMoreMessages' = PageHasMore(flag, olderMessages)
            /\ isLoadingMore' = FALSE
    /\ moreReqs' = moreReqs \ {r}
    /\ calls' = [calls EXCEPT !.lastMore = IF ~ok THEN "failed"
                                           ELSE IF Len(olderMessages) = 0 THEN "empty"
                                           ELSE "merged",
                              !.page = IF ok THEN [kind |-> "older", flag |-> flag,
                                                   count |-> Len(olderMessages)]
                                        ELSE NoPage]
    /\ UNCHANGED <<chats, activeChatId, isLoading, streamingMessage, activeTools, snd, initReqs,
                   server, now>>

\* Lines 358-382: the page is answered (or the fetch fails).
MoreResponse(r, ok, flag) ==
    LET olderMessages == ServerPage(server[r.chat], r.cursor) IN
    /\ ~InLoop
    /\ r \in moreReqs
    /\ IF ~ok
       THEN /\ isLoadingMore' = FALSE
            /\ UNCHANGED <<messages, hasMoreMessages>>
       ELSE /\ messages' = (IF Len(olderMessages) = 0 THEN messages
                                ELSE MergePage(olderMessages, messages))
            /\ hasMoreMessages' = PageHasMore(flag, olderMessages)
            /\ isLoadingMore' = FALSE
    /\ moreReqs' = moreReqs \ {r}
    /\ calls' = [calls EXCEPT !.lastMore = IF ~ok THEN "failed"
                                           ELSE IF Len(olderMessages) = 0 THEN "empty"
                                           ELSE "merged",
                              !.page = IF ok THEN [kind |-> "older", flag |-> flag,
                                                   count |-> Len(olderMessages)]
                                        ELSE NoPage]
    /\ UNCHANGED <<chats, activeChatId, isLoading, streamingMessage, activeTools, snd, initReqs,
                   server, now>>

(***************************************************************************)
(* deleteChat.                                                             *)
(***************************************************************************)
\* Lines 385-387: the call, made from the chat list; it writes nothing
\* before the DELETE is answered.
DeleteChat(id) ==
    /\ ~InLoop
    /\ calls.ops < MaxOps
    /\ \E i \in 1..Len(chats) : chats[i].id = id
    /\ id \notin calls.deletes
    /\ calls' = [calls EXCEPT !.ops = @ + 1, !.page = NoPage, !.deletes = @ \cup {id}]
    /\ UNCHANGED <<store, snd, initReqs, moreReqs, server, now>>

\* Lines 387-396: the DELETE is answered (or fails).  The requests of other
\* operations that are in flight were sent before it and are answered as
\* they would have been.
DeleteChatResponse(id, ok) ==
    /\ ~InLoop
    /\ id \in calls.deletes
    /\ IF ok
       THEN /\ chats' = SelectSeq(chats, LAMBDA c : c.id # id)
            /\ activeChatId' = (IF activeChatId = id THEN None ELSE activeChatId)
            /\ messages' = (IF activeChatId = id THEN <<>> ELSE messages)
       ELSE UNCHANGED <<chats, activeChatId, messages>>
    /\ calls' = [calls EXCEPT !.page = NoPage, !.deletes = @ \ {id}]
    /\ UNCHANGED <<isLoading, streamingMessage, activeTools, hasMoreMessages, isLoadingMore,
                   snd, initReqs, moreReqs, server, now>>

(***************************************************************************)
(* Bodies the server may stream.                                           *)
(***************************************************************************)
RECURSIVE SeqsUpTo(_, _)
SeqsUpTo(S, n) ==
    IF n = 0 THEN {<<>>}
    ELSE LET shorter == SeqsUpTo(S, n - 1) IN
         shorter \cup {Append(q, x) : q \in shorter, x \in S}

StreamLines == {Tok("a"), Tok("b"), Tok(""), Err("e"), DoneEv, Sentinel, Malformed("p")}

StreamBodies == SeqsUpTo(StreamLines, MaxLines)

SessionBodies == {<<Tok("a"), DoneEv>>}

\* tool names and citation lists the events of a turn may carry
ToolNames == {"n", "m"}

Citations == {"c1", "c2"}

ToolLines == {ToolStart("n"), ToolStart("m"), ToolEnd("n"), Source("n", "c1"),
              Source("n", "c2"), Tok("a")}

ToolBodies == SeqsUpTo(ToolLines, MaxLines)

\* title updates for a chat of the list, for the other one, and one that
\* lacks its title, among tokens
TitleLines == {TitleUpdate("A", "t"), TitleUpdate("B", "u"), TitleUpdate("A", ""),
               Tok("a"), DoneEv}

TitleBodies == SeqsUpTo(TitleLines, MaxLines)

\* lines that are no frames (a comment, a `data:` with nothing behind it)
\* among frames
QuietLines == {Comment, EmptyData, Tok("a"), DoneEv}

QuietBodies == SeqsUpTo(QuietLines, MaxLines)

(***************************************************************************)
(* SpecStream: the chat list is loaded and one chat is opened, then one    *)
(* turn runs over any body, cut into chunks in any way.                    *)
(***************************************************************************)
NextStream ==
    \/ (chats = <<>> /\ FetchChatsResponse(TRUE))
    \/ (chats # <<>> /\ calls.ops = 0 /\ SetActiveChat("A"))
    \/ \E r \in initReqs : InitResponse(r, TRUE, "absent")
    \/ (initReqs = {} /\ calls.ops = 1 /\ SendStart(1, now))
    \/ (snd[1].pc = "posting" /\ \E src \in StreamBodies : SendResponse(1, "ok", "", src))
    \/ (snd[1].pc = "posting" /\ \E src \in TitleBodies : SendResponse(1, "ok", "", src))
    \/ (snd[1].pc = "posting" /\ \E src \in QuietBodies : SendResponse(1, "ok", "", src))
    \/ \E k \in 1..(2 * Len(snd[1].src)) : ReadChunk(1, k)
    \/ ProcessLine(1)
    \/ StreamClose(1, now)
    \/ \E ok \in BOOLEAN : ReconResponse(1, ok, "absent")

SpecStream == Init /\ [][NextStream]_vars

(***************************************************************************)
(* SpecTools: turns whose streams carry tool events.  The first turn may   *)
(* be sent with no chat open (createChat); a stream may break off with a   *)
(* read error instead of ending, and the user then sends again while the   *)
(* partial reply of the broken turn is still displayed.                    *)
(***************************************************************************)
\* nothing was sent yet, or createChat failed, or a broken turn left its
\* partial reply or its error text in the buffer
SendAgain ==
    \/ snd[1].pc \in {"idle", "rejected"}
    \/ streamingMessage # ""
    \/ activeTools # <<>>

NextTools ==
    \/ (calls.ops = 0 /\ SetActiveChat("A"))
    \/ \E r \in initReqs : InitResponse(r, TRUE, "absent")
    \/ (initReqs = {} /\ SendAgain /\ SendStart(1, now))
    \/ \E ok \in BOOLEAN : CreateChatResponse(1, ok, now)
    \/ (snd[1].pc = "posting" /\ \E src \in ToolBodies : SendResponse(1, "ok", "", src))
    \/ \E o \in Outcomes \ {"ok"}, body \in ErrBodies :
           \E errText \in ErrorText(body) : SendResponse(1, o, errText, <<>>)
    \/ ReadChunk(1, 2 * Len(snd[1].src) - snd[1].pos)
    \/ ProcessLine(1)
    \/ ReadFail(1)
    \/ StreamClose(1, now)
    \/ \E ok \in BOOLEAN : ReconResponse(1, ok, "absent")

SpecTools == Init /\ [][NextTools]_vars

(***************************************************************************)
(* Spec: chat switches, pagination and turns (one after the other, each    *)
(* sent from an open chat once the input is enabled again) interleaved in  *)
(* every way, with responses arriving in any order.                        *)
(***************************************************************************)
Times == T0..(T0 + MaxTicks)

Next ==
    \/ \E id \in ChatIds : SetActiveChat(id)
    \/ \E r \in initReqs, ok \in BOOLEAN, flag \in HasMoreFlags : InitResponse(r, ok, flag)
    \/ LoadMoreMessages
    \/ \E r \in moreReqs, ok \in BOOLEAN, flag \in HasMoreFlags : MoreResponse(r, ok, flag)
    \/ \E t \in Times : activeChatId # None /\ ~isLoading /\ SendStart(1, t)
    \/ \E o \in {"ok", "notok"}, src \in SessionBodies : SendResponse(1, o, "detail", src)
    \/ ReadChunk(1, 2 * Len(snd[1].src) - snd[1].pos)
    \/ ProcessLine(1)
    \/ \E t \in Times : StreamClose(1, t)
    \/ \E ok \in BOOLEAN, flag \in HasMoreFlags : ReconResponse(1, ok, flag)

Spec == Init /\ [][Next]_vars

(***************************************************************************)
(* SpecOverlap: chat A is opened and sendMessage is called whenever the    *)
(* input is enabled (isLoading false), also while the stream of an earlier *)
(* call is still open or its refresh still pending; the streams arrive    *)
(* line by line, interleaved in every way.                                 *)
(***************************************************************************)
OverlapBodies == {<<Tok("a"), Tok("b")>>, <<Tok("b"), DoneEv>>}

NextOverlap ==
    \/ (calls.ops = 0 /\ SetActiveChat("A"))
    \/ \E r \in initReqs : InitResponse(r, TRUE, "absent")
    \/ \E s \in Sends : activeChatId # None /\ ~isLoading /\ SendStart(s, now)
    \/ \E s \in Sends, src \in OverlapBodies : SendResponse(s, "ok", "", src)
    \/ \E s \in Sends : ReadChunk(s, 2)
    \/ \E s \in Sends : ProcessLine(s)
    \/ \E s \in Sends : StreamClose(s, now)
    \/ \E s \in Sends, ok \in BOOLEAN : ReconResponse(s, ok, "absent")

SpecOverlap == Init /\ [][NextOverlap]_vars

(***************************************************************************)
(* SpecDelete: the chat list is loaded and chat A opened; chats are        *)
(* deleted from the list while a first page, a pagination page, a stream   *)
(* or a refresh may be outstanding.  A message may also be sent with no    *)
(* chat open.                                                              *)
(***************************************************************************)
NextDelete ==
    \/ (chats = <<>> /\ FetchChatsResponse(TRUE))
    \/ (chats # <<>> /\ calls.ops = 0 /\ SetActiveChat("A"))
    \/ \E r \in initReqs, ok \in BOOLEAN : InitResponse(r, ok, "absent")
    \/ (activeChatId # None /\ LoadMoreMessages)
    \/ \E r \in moreReqs, ok \in BOOLEAN : MoreResponse(r, ok, "absent")
    \/ (chats # <<>> /\ ~isLoading /\ SendStart(1, now))
    \/ \E ok \in BOOLEAN : CreateChatResponse(1, ok, now)
    \/ \E src \in SessionBodies : SendResponse(1, "ok", "", src)
    \/ ReadChunk(1, 2 * Len(snd[1].src) - snd[1].pos)
    \/ ProcessLine(1)
    \/ StreamClose(1, now)
    \/ \E ok \in BOOLEAN : ReconResponse(1, ok, "absent")
    \/ \E id \in ChatIds : DeleteChat(id)
    \/ \E id \in calls.deletes, ok \in BOOLEAN : DeleteChatResponse(id, ok)

SpecDelete == Init /\ [][NextDelete]_vars

(***************************************************************************)
(* Properties of one turn (SpecStream).                                    *)
(***************************************************************************)
RECURSIVE TokenConcat(_)
TokenConcat(ls) ==
    IF ls = <<>> THEN ""
    ELSE (IF Head(ls).kind = "token" THEN Head(ls).content ELSE "") \o TokenConcat(Tail(ls))

OnlyTokens(ls) == \A i \in 1..Len(ls) : ls[i].kind = "token"

\* the turn of slot s has just been finalized
Finalized(s) == snd[s].pc = "recon"

\* C1: when the body of a turn consists of token events only and has ended,
\* the assistant message appended to messages carries the concatenation of
\* their contents in arrival order, however the body was cut into chunks.
TokensConcatenated ==
    \A s \in Sends :
        (Finalized(s) /\ OnlyTokens(snd[s].src)) =>
            /\ messages # <<>>
            /\ messages[Len(messages)] = snd[s].aiMsg
            /\ snd[s].aiMsg.role = "assistant"
            /\ snd[s].aiMsg.content = TokenConcat(snd[s].src)

\* two different tokens, the first line cut in two by a chunk boundary
TokensConcatenatedWitness ==
    /\ Finalized(1)
    /\ snd[1].src = <<Tok("a"), Tok("b"), Tok("a")>>
    /\ messages[Len(messages)].content = "aba"

\* C2: once a terminal frame ([DONE], done or error) has been processed, no
\* later frame of the same stream changes the session state, be it in the
\* same chunk or in a later one.
NoFrameAfterTerminal ==
    \A s \in Sends :
        (snd[s].term.at > 0 /\ snd[s].pc \in {"read", "lines"}) =>
            /\ isLoading = snd[s].term.isLoading
            /\ streamingMessage = snd[s].term.streamingMessage
            /\ activeTools = snd[s].term.activeTools
            /\ chats = snd[s].term.chats

\* a frame that does not parse is the line being dispatched
AtMalformed(s) == snd[s].pc = "lines" /\ Head(snd[s].lines).kind = "malformed"

\* C3: a data: frame whose non-empty payload is not JSON never fails the
\* turn: the payload is appended verbatim to streamingMessage, the loop
\* goes on with the next line, and sendMessage stays out of its error path.
MalformedIsAppended ==
    [][\A s \in Sends :
          AtMalformed(s) =>
              /\ streamingMessage' = streamingMessage \o Head(snd[s].lines).content
              /\ snd'[s].lines = Tail(snd[s].lines)
              /\ snd'[s].buffer = snd[s].buffer
              /\ snd'[s].pc = (IF Tail(snd[s].lines) = <<>> THEN "read" ELSE "lines")
              /\ UNCHANGED <<messages, activeTools, chats>>]_vars

\* a payload that did not parse sits in the final message between the tokens
\* that came before and after it
MalformedIsAppendedWitness ==
    /\ Finalized(1)
    /\ snd[1].applied = <<Tok("a"), Malformed("p"), Tok("b")>>
    /\ snd[1].aiMsg.content = "apb"

\* position in the lines dispatched so far of an error event that no token
\* and no literal-text append precedes; 0 if there is none
ErrorFirstAt(s) ==
    LET ap == snd[s].applied
        is == {i \in 1..Len(ap) :
                  /\ ap[i].kind = "error"
                  /\ \A j \in 1..(i - 1) : ap[j].kind \notin {"token", "malformed", "error"}}
    IN IF is = {} THEN 0 ELSE CHOOSE i \in is : TRUE

\* C4: if an error event is processed before any token of the turn, isLoading
\* is false right after that event and the final assistant message content
\* is exactly the content of the error event.
ErrorBeforeTokenIsFinal ==
    \A s \in Sends :
        LET i == ErrorFirstAt(s) IN
        i > 0 =>
            /\ (Len(snd[s].applied) = i) => ~isLoading
            /\ Finalized(s) => snd[s].aiMsg.content = snd[s].applied[i].content

(***************************************************************************)
(* Properties of the window and of pagination (Spec).                      *)
(***************************************************************************)
NoDup(ms) == \A i, j \in 1..Len(ms) : i # j => ms[i].id # ms[j].id

Chrono(ms) == \A i \in 1..(Len(ms) - 1) : ms[i].created_at <= ms[i + 1].created_at

\* C5: in every reachable state no two entries of messages share an id,
\* for any server responses and any clock that does not run backwards.
UniqueMessageIds == NoDup(messages)

\* this step applies the answer to the pagination fetch r
MoreAnswered(r) == r \in moreReqs /\ r \notin moreReqs'

\* every server message of the window belongs to chat c
WindowOf(c) == \A i \in 1..Len(messages) : IsLocal(messages[i].id) \/ messages[i].id \in Ids(server[c])

\* C6: after any loadMoreMessages merge the window has no duplicate ids and
\* is in chronological ascending order, whatever completed between the read
\* of the cursor and the merge.  Stated for the case that leaves the merge
\* no excuse: the page belongs to the chat that is still active, and the
\* window it meets holds only that chat's messages, in order and without
\* duplicates.
MergeKeepsWindowSound ==
    [][\A r \in moreReqs :
          (/\ MoreAnswered(r) /\ calls'.lastMore = "merged"
           /\ r.chat = activeChatId /\ WindowOf(activeChatId)
           /\ NoDup(messages) /\ Chrono(messages))
              => (NoDup(messages') /\ Chrono(messages'))]_vars

\* this step is a call of setActiveChat
SwitchStep == ~(initReqs' \subseteq initReqs)

\* this step replaces the window by a most-recent page that was fetched, by
\* setActiveChat's first load or by the refresh that follows a turn
WindowReplaced ==
    \/ \E r \in initReqs : /\ r \notin initReqs'
                           /\ messages' = Unique(ServerPage(server[r.id], NoCursor))
    \/ \E s \in Sends : /\ snd[s].pc = "recon" /\ snd'[s].pc = "done"
                        /\ messages' = Unique(ServerPage(server[snd[s].finalChatId], NoCursor))

\* this step merges a non-empty pagination page into the window
WindowExtended ==
    \E r \in moreReqs : /\ MoreAnswered(r)
                        /\ ServerPage(server[r.chat], r.cursor) # <<>>
                        /\ messages' = MergePage(ServerPage(server[r.chat], r.cursor), messages)

\* this step applies a fetched page to the window
PageApplied == WindowReplaced \/ WindowExtended

\* no first-page or pagination fetch is outstanding
NoPageInFlight == initReqs = {} /\ moreReqs = {}

OnePaginationFetch ==
    /\ [](Cardinality(moreReqs) <= 1 /\ (isLoadingMore <=> moreReqs # {}))
    /\ [][/\ (isLoadingMore /\ calls'.more # calls.more)
              => UNCHANGED <<store, snd, initReqs, moreReqs, server, now>>
          /\ ~(moreReqs' \subseteq moreReqs)
              => (calls'.more = calls.more + 1 /\ ~isLoadingMore
                  /\ Cardinality(moreReqs') = Cardinality(moreReqs) + 1)]_vars

\* a second call was made while the first fetch was still in flight
OnePaginationFetchWitness ==
    /\ isLoadingMore
    /\ calls.dropped = 1
    /\ calls.fetches = 1
    /\ Cardinality(moreReqs) = 1

\* C10: a pagination page that arrives after setActiveChat has switched to
\* another chat is discarded: it changes neither messages nor
\* hasMoreMessages of the new session.
LatePageDiscarded ==
    [][\A r \in moreReqs :
          (MoreAnswered(r) /\ r.chat # activeChatId)
              => UNCHANGED <<messages, hasMoreMessages>>]_vars

(***************************************************************************)
(* Answers that arrive after a chat switch, and the switch itself (Spec).  *)
(***************************************************************************)
\* this step applies the answer to the background refresh of invocation s
ReconAnswered(s) == snd[s].pc = "recon" /\ snd'[s].pc # "recon"

\* C11: a background-refresh answer that arrives after setActiveChat has
\* switched to another chat replaces neither the new chat's messages nor
\* its hasMoreMessages.
LateReconDiscarded ==
    [][\A s \in Sends :
          (ReconAnswered(s) /\ snd[s].finalChatId # activeChatId)
              => UNCHANGED <<messages, hasMoreMessages>>]_vars

\* this step applies the answer to the first-page fetch r
InitAnswered(r) == r \in initReqs /\ r \notin initReqs'

\* C12: after setActiveChat(A) and then setActiveChat(B), the answer to A's
\* first-page fetch, whenever it arrives, overwrites neither messages nor
\* hasMoreMessages of session B.
LateFirstPageDiscarded ==
    [][\A r \in initReqs :
          (InitAnswered(r) /\ r.id # activeChatId)
              => UNCHANGED <<messages, hasMoreMessages>>]_vars

\* this step is taken by invocation s while its stream is open: a chunk is
\* read, a line is dispatched, or the turn is finalized
StreamStep(s) == snd[s].pc \in {"read", "lines"} /\ snd'[s] # snd[s]

\* C13: after a switch to another chat, the frames of the old chat's open
\* stream and its finalization change neither streamingMessage nor
\* activeTools nor messages of the new session.
LateFramesDiscarded ==
    [][\A s \in Sends :
          (StreamStep(s) /\ snd[s].activeChatId # activeChatId)
              => UNCHANGED <<streamingMessage, activeTools, messages>>]_vars

AtLine(s, kind) == snd[s].pc = "lines" /\ Head(snd[s].lines).kind = kind

\* the indices of the entries of that name that are still started
StartedOf(tools, n) ==
    {i \in 1..Len(tools) : tools[i].name = n /\ tools[i].status = "started"}

\* C15: a tool_end{name} event sets to completed exactly one entry of
\* activeTools, the most recently started entry of that name that is still
\* started, and leaves every other entry as it was.
ToolEndCompletesOne ==
    [][\A s \in Sends :
          (AtLine(s, "tool_end") /\ StartedOf(activeTools, Head(snd[s].lines).name) # {})
              => LET open == StartedOf(activeTools, Head(snd[s].lines).name)
                     k == CHOOSE i \in open : \A j \in open : j <= i
                 IN activeTools' = [activeTools EXCEPT ![k].status = "completed"]]_vars

\* the turn of invocation s is under way before and after this step
InTurn(s) == snd[s].pc \in {"read", "lines"} /\ snd'[s].pc \in {"read", "lines"}

\* C16: within a turn an entry of activeTools keeps its place and its name,
\* a started entry stays started or becomes completed or failed, and a
\* completed or failed entry keeps its status; no entry is removed.
ToolStatusMonotonic ==
    [][\A s \in Sends : InTurn(s) =>
          /\ Len(activeTools') >= Len(activeTools)
          /\ \A i \in 1..Len(activeTools) :
                /\ activeTools'[i].name = activeTools[i].name
                /\ activeTools'[i].status \in {"started", "completed", "failed"}
                /\ activeTools[i].status # "started"
                       => activeTools'[i].status = activeTools[i].status]_vars

\* a tool was started, ended and started again in one turn
ToolStatusMonotonicWitness ==
    /\ snd[1].pc \in {"read", "lines"}
    /\ snd[1].applied = <<ToolStart("n"), ToolEnd("n"), ToolStart("n")>>
    /\ Len(activeTools) = 2
    /\ activeTools[1].status = "completed"
    /\ activeTools[2].status = "started"

\* the store fields and locals the dispatcher of invocation s works on
TurnState(s) ==
    [isLoading |-> isLoading, streamingMessage |-> streamingMessage,
     activeTools |-> activeTools, chats |-> chats,
     hasReceivedFirstToken |-> snd[s].hasReceivedFirstToken,
     pendingToolMeta |-> snd[s].pendingToolMeta, brk |-> FALSE]

Last(q) == q[Len(q)]

\* C17: at any point of a turn, for a tool name n and citations c, source{n,
\* c} then tool_start{n} leaves the same tool list and the same stash as
\* tool_start{n} then source{n, c}; the entry just started carries c, and a
\* following tool_end{n} makes it {name: n, status: completed, citations: c}.
SourceAndStartCommute ==
    \A s \in Sends : snd[s].pc \in {"read", "lines"} =>
        \A n \in ToolNames, c \in Citations \cup {NoCits} :
            LET sourceFirst == Dispatch(ToolStart(n), Dispatch(Source(n, c), TurnState(s)))
                startFirst == Dispatch(Source(n, c), Dispatch(ToolStart(n), TurnState(s)))
            IN /\ sourceFirst.activeTools = startFirst.activeTools
               /\ sourceFirst.pendingToolMeta = startFirst.pendingToolMeta
               /\ Last(sourceFirst.activeTools) = Tool(n, "started", c)
               /\ Last(Dispatch(ToolEnd(n), startFirst).activeTools) = Tool(n, "completed", c)

\* the rarer order has happened in a turn: the tool was started, then its
\* source event arrived and patched the entry
SourceAndStartCommuteWitness ==
    /\ snd[1].pc \in {"read", "lines"}
    /\ snd[1].applied = <<Source("n", "c2"), ToolStart("n"), Source("n", "c1")>>
    /\ activeTools = <<Tool("n", "started", "c1")>>

(***************************************************************************)
(* What a turn leaves in the store (SpecTools).                            *)
(***************************************************************************)
\* this step starts the turn of invocation s (line 105 onwards)
TurnStarts(s) == snd[s].pc # "posting" /\ snd'[s].pc = "posting"

\* this step finalizes the turn of invocation s (lines 288-304)
TurnFinalized(s) ==
    /\ snd[s].pc = "read"
    /\ snd'[s].pc \in {"recon", "done"}
    /\ messages' # messages

\* C18: streamingMessage and activeTools are both empty right after
\* sendMessage has started a turn and again right after the turn's
\* assistant message was appended; the background refresh, whether it
\* succeeds or fails, does not touch them, and while it is pending they
\* are as the finalization left them.
TurnBuffersCleared ==
    [][\A s \in Sends :
          /\ (TurnStarts(s) \/ TurnFinalized(s))
                 => (streamingMessage' = "" /\ activeTools' = <<>>)
          /\ snd[s].pc = "recon" => UNCHANGED <<streamingMessage, activeTools>>]_vars

\* a stream broke off and left its partial reply or its error text in the
\* buffer, a new turn was sent while that was displayed, and its own stream
\* with a token and a tool has ended: the buffers are empty while the
\* refresh is pending
TurnBuffersClearedWitness ==
    /\ snd[1].pc = "recon"
    /\ calls.ops = 3
    /\ Len(messages) >= 3
    /\ messages[Len(messages) - 1].role = "user"
    /\ messages[Len(messages) - 2].role = "user"
    /\ snd[1].aiMsg.content = "a"
    /\ snd[1].aiMsg.tool_calls # <<>>
    /\ streamingMessage = ""
    /\ activeTools = <<>>

\* this step is the end of the stream of invocation s
StreamEnds(s) == snd[s].pc = "read" /\ snd'[s].pc = "recon"

\* this step is the return of invocation s
Returns(s) ==
    /\ snd[s].pc \in {"creating", "posting", "read", "lines", "recon"}
    /\ snd'[s].pc \in {"done", "rejected"}

\* what an invocation does to messages: its start appends the user message,
\* the end of its stream appends one assistant message whose content and
\* tool_calls are streamingMessage and activeTools of that moment, and no
\* other step of it before the refresh changes messages
AppendsOfTurn(s) ==
    /\ TurnStarts(s) =>
          /\ messages' = Append(messages, snd'[s].userMsg)
          /\ snd'[s].userMsg.role = "user"
          /\ snd[s].userMsg = NoMsg
    /\ StreamEnds(s) =>
          /\ messages' = Append(messages, snd'[s].aiMsg)
          /\ snd'[s].aiMsg.role = "assistant"
          /\ snd'[s].aiMsg.content = streamingMessage
          /\ snd'[s].aiMsg.tool_calls = activeTools
          /\ snd[s].aiMsg = NoMsg
    /\ (snd'[s] # snd[s] /\ snd[s].pc # "recon" /\ ~TurnStarts(s) /\ ~StreamEnds(s))
          => messages' = messages

\* C19 as stated: every invocation of sendMessage appends exactly one user
\* message and at most one assistant message; at the end of the stream
\* exactly one assistant message is appended, with streamingMessage and
\* activeTools of that moment as content and tool_calls.
OneUserMessagePerSend ==
    [][\A s \in Sends : /\ AppendsOfTurn(s)
                        /\ Returns(s) => snd[s].userMsg # NoMsg]_vars

\* C19 as amended: the same for every invocation that has a chat to send
\* to; an invocation whose createChat fails returns having appended
\* nothing.
OneUserMessagePerTurn ==
    [][\A s \in Sends :
          /\ AppendsOfTurn(s)
          /\ Returns(s) => IF snd[s].pc = "creating"
                           THEN messages' = messages /\ snd[s].userMsg = NoMsg
                           ELSE snd[s].userMsg # NoMsg]_vars

\* a stream with a token and a tool has ended: the window ends with the
\* user message of the turn and the one assistant message built from them
OneUserMessagePerTurnWitness ==
    /\ snd[1].pc = "recon"
    /\ Len(messages) >= 2
    /\ messages[Len(messages) - 1] = snd[1].userMsg
    /\ Last(messages) = snd[1].aiMsg
    /\ snd[1].aiMsg.content = "a"
    /\ snd[1].aiMsg.tool_calls # <<>>

(***************************************************************************)
(* The window after the background refresh (Spec).                         *)
(***************************************************************************)
\* the entries of a page that are the first of their id, in page order
FirstOccurrences(page) ==
    LET kept == {i \in 1..Len(page) : \A j \in 1..(i - 1) : page[j].id # page[i].id}
        Nth(k) == CHOOSE i \in kept : Cardinality({j \in kept : j < i}) = k - 1
    IN [k \in 1..Cardinality(kept) |-> page[Nth(k)]]

\* C20: after a successful background refresh messages is the returned page
\* with repeated ids removed, the first occurrence kept and the order
\* preserved; no locally generated record, in particular neither the
\* optimistic user message nor the assistant message of the finished turn,
\* is left in the window.
RefreshReplacesWindow ==
    [][\A s \in Sends :
          (ReconAnswered(s) /\ calls'.lastRecon = "ok") =>
              /\ \E page \in FreshPages(server[snd[s].finalChatId]) :
                     messages' = FirstOccurrences(page)
              /\ \A i \in 1..Len(messages') :
                     /\ ~IsLocal(messages'[i].id)
                     /\ messages'[i] \notin {snd[s].userMsg, snd[s].aiMsg}]_vars

\* the refresh after a turn in chat A has succeeded: the window is the
\* chat's ten latest stored messages, the two of the turn included
RefreshReplacesWindowWitness ==
    /\ calls.lastRecon = "ok"
    /\ snd[1].pc = "done"
    /\ activeChatId = "A"
    /\ Len(server["A"]) = Len(InitServer["A"]) + 2
    /\ messages = LastN(server["A"], PageSize)

(***************************************************************************)
(* Failures of the requests.                                               *)
(***************************************************************************)
\* C21: when the background refresh fails (network error, non-OK status or
\* a body that does not parse), messages keeps the optimistic user and
\* assistant records, streamingMessage stays empty, isLoading stays false,
\* nothing else of the store changes and sendMessage returns normally.
ReconFailureIsSilent ==
    [][\A s \in Sends :
          (ReconAnswered(s) /\ calls'.lastRecon = "failed") =>
              /\ UNCHANGED store
              /\ streamingMessage' = ""
              /\ isLoading' = FALSE
              /\ snd'[s].pc = "done"]_vars

\* the refresh of a turn has failed and the window still ends with the two
\* records of the turn under their local ids
ReconFailureIsSilentWitness ==
    /\ calls.lastRecon = "failed"
    /\ snd[1].pc = "done"
    /\ Len(messages) >= 2
    /\ messages[Len(messages) - 1].role = "user"
    /\ IsLocal(messages[Len(messages) - 1].id)
    /\ Last(messages).role = "assistant"
    /\ IsLocal(Last(messages).id)
    /\ Last(messages).content = "a"
    /\ streamingMessage = ""
    /\ ~isLoading


\* the POST of invocation s is answered in this step
SendAnswered(s) == snd[s].pc = "posting" /\ snd'[s].pc # "posting"

\* C22: when the POST is answered with a non-success status other than 401,
\* isLoading becomes false, streamingMessage becomes the non-empty error
\* text, no assistant message is appended, and the promise of sendMessage
\* rejects.
NotOkRejects ==
    [][\A s \in Sends :
          (SendAnswered(s) /\ calls'.lastSend = "notok") =>
              /\ isLoading' = FALSE
              /\ streamingMessage' # ""
              /\ messages' = messages
              /\ snd'[s].pc = "rejected"]_vars

\* C23: when the POST is answered with 401, the unauthorized handler is
\* called exactly once, no frame of the body is processed, no assistant
\* message is appended, isLoading ends false, and sendMessage returns
\* without a second POST; the handler is called on no other occasion.
UnauthorizedIsSignalled ==
    [][/\ \A s \in Sends :
             (SendAnswered(s) /\ calls'.lastSend = "401") =>
                 /\ calls'.unauthorized = calls.unauthorized + 1
                 /\ snd[s].applied = <<>>
                 /\ snd'[s].pc = "done"
                 /\ isLoading' = FALSE
                 /\ UNCHANGED <<messages, activeTools, chats, server>>
       /\ calls'.unauthorized # calls.unauthorized =>
             \E s \in Sends : SendAnswered(s) /\ calls'.lastSend = "401"]_vars

\* a turn sent from chat A was answered with 401: the window is the first
\* page and the user message, and the handler was called once
UnauthorizedIsSignalledWitness ==
    /\ calls.lastSend = "401"
    /\ calls.unauthorized = 1
    /\ snd[1].pc = "done"
    /\ activeChatId = "A"
    /\ Len(messages) = PageSize + 1
    /\ Last(messages).role = "user"
    /\ ~isLoading
    /\ streamingMessage = "Unauthorized"

\* C24: when a loadMoreMessages fetch fails (exception or non-OK response),
\* isLoadingMore returns to false and nothing else of the store changes:
\* messages and hasMoreMessages stay as they are, and the in-flight flag no
\* longer keeps a later loadMoreMessages from running.
MoreFailureClearsFlagOnly ==
    [][\A r \in moreReqs :
          (MoreAnswered(r) /\ calls'.lastMore = "failed") =>
              /\ isLoadingMore' = FALSE
              /\ UNCHANGED <<chats, activeChatId, messages, isLoading, streamingMessage,
                             activeTools, hasMoreMessages>>
              /\ LoadMoreGuard' = (activeChatId # None /\ hasMoreMessages)]_vars

\* the first fetch of the session failed and the next call has issued the
\* same request again
MoreFailureClearsFlagOnlyWitness ==
    /\ calls.lastMore = "failed"
    /\ calls.fetches = 2
    /\ calls.dropped = 0
    /\ isLoadingMore
    /\ messages = LastN(server["A"], PageSize)
    /\ \E r \in moreReqs : moreReqs = {r} /\ r.chat = "A" /\ r.cursor = messages[1].id

(***************************************************************************)
(* The end of a turn and the cutting of its stream.                        *)
(***************************************************************************)
\* C25: once a done, error or [DONE] frame has been processed the turn is
\* finalized (assistant message appended, streamingMessage and activeTools
\* cleared, refresh requested): the invocation is never found still reading
\* the body, waiting for the server to close it.
TerminalFinalizesTurn ==
    \A s \in Sends :
        snd[s].term.at > 0 =>
            /\ snd[s].pc \notin {"read", "lines"}
            /\ snd[s].aiMsg # NoMsg
            /\ streamingMessage = ""
            /\ activeTools = <<>>

\* the lines ls dispatched as one chunk, from turn state st
RECURSIVE DispatchAll(_, _)
DispatchAll(ls, st) ==
    IF ls = <<>> \/ st.brk THEN st ELSE DispatchAll(Tail(ls), Dispatch(Head(ls), st))

\* what the turn of invocation s comes to when its whole body arrives as
\* one chunk
OneChunk(s) ==
    DispatchAll(snd[s].src,
                [isLoading |-> TRUE, streamingMessage |-> "", activeTools |-> <<>>,
                 chats |-> chats, hasReceivedFirstToken |-> FALSE,
                 pendingToolMeta |-> EmptyMeta, brk |-> FALSE])

\* C26: the outcome of a turn does not depend on how its body is cut into
\* chunks: when the whole body has been read, streamingMessage, activeTools
\* and isLoading are what they are when the body arrives as one chunk, and
\* so are content and tool_calls of the assistant message appended at the
\* end.
ChunkingIsIrrelevant ==
    \A s \in Sends :
        /\ (snd[s].pc = "read" /\ snd[s].pos = 2 * Len(snd[s].src)) =>
               /\ streamingMessage = OneChunk(s).streamingMessage
               /\ activeTools = OneChunk(s).activeTools
               /\ isLoading = OneChunk(s).isLoading
        /\ Finalized(s) =>
               /\ snd[s].aiMsg.content = OneChunk(s).streamingMessage
               /\ snd[s].aiMsg.tool_calls = OneChunk(s).activeTools

\* C27: an error event that arrives after at least one token event of the
\* turn has been processed leaves streamingMessage exactly as it was, also
\* when every token so far was empty; the content of the error is not added.
ErrorAfterTokenKeepsBuffer ==
    [][\A s \in Sends :
          (/\ AtLine(s, "error")
           /\ \E i \in 1..Len(snd[s].applied) : snd[s].applied[i].kind = "token") =>
              streamingMessage' = streamingMessage]_vars

(***************************************************************************)
(* Pages.                                                                  *)
(***************************************************************************)
\* the entries of page whose id is not in ids, in the order of the page
Without(page, ids) ==
    LET kept == {i \in 1..Len(page) : page[i].id \notin ids}
        Nth(k) == CHOOSE i \in kept : Cardinality({j \in kept : j < i}) = k - 1
    IN [k \in 1..Cardinality(kept) |-> page[Nth(k)]]

\* C28: a non-empty page P answered to loadMoreMessages, with W the window
\* of that moment, makes messages the entries of P whose id is not in W, in
\* the order returned, followed by W; no entry of W is removed, replaced or
\* moved.
MergePrependsNewOnes ==
    [][\A r \in moreReqs :
          LET P == ServerPage(server[r.chat], r.cursor)
              W == messages
              ids == {W[i].id : i \in 1..Len(W)}
          IN (MoreAnswered(r) /\ calls'.lastMore = "merged") =>
                 /\ P # <<>>
                 /\ messages' = Without(P, ids) \o W
                 /\ SubSeq(messages', Len(messages') - Len(W) + 1, Len(messages')) = W]_vars

\* the page of the two oldest messages of chat A was put in front of the
\* first page
MergePrependsNewOnesWitness ==
    /\ calls.lastMore = "merged"
    /\ activeChatId = "A"
    /\ moreReqs = {}
    /\ Len(messages) = Len(InitServer["A"])
    /\ messages = InitServer["A"]

\* a page fetch (first page, older page or refresh) is answered in this step
PageAnswered ==
    \/ \E r \in initReqs : InitAnswered(r)
    \/ \E r \in moreReqs : MoreAnswered(r)
    \/ \E s \in Sends : ReconAnswered(s)

\* C29: after a page load (first page, non-empty older page, or refresh)
\* hasMoreMessages is the has_more flag of the response when it has one, and
\* otherwise tells whether the response carried at least 10 messages,
\* counted as returned, before repeated ids are removed.
HasMoreFollowsPage ==
    [][LET page == calls'.page IN
       (/\ PageAnswered
        /\ page.kind # "none"
        /\ ~(page.kind = "older" /\ page.count = 0)) =>
           hasMoreMessages' = (IF page.flag = "absent" THEN page.count >= PageSize
                               ELSE page.flag = "true")]_vars

\* the refresh after a turn in chat B brought the nine messages of the chat
\* and one of them twice, without a flag: ten returned, nine in the window
HasMoreFollowsPageWitness ==
    /\ calls.page = [kind |-> "fresh", flag |-> "absent", count |-> PageSize]
    /\ activeChatId = "B"
    /\ Len(messages) = PageSize - 1
    /\ hasMoreMessages

(***************************************************************************)
(* The chat list.                                                          *)
(***************************************************************************)
\* C30: a title_update event with chat id and title changes nothing but the
\* title of the chat of that id in chats: the other chats keep theirs,
\* messages, streamingMessage, activeTools, isLoading, hasMoreMessages and
\* activeChatId stay, and the loop goes on with the next line.  Without id
\* or title the event changes nothing.
TitleUpdateRenamesOneChat ==
    [][\A s \in Sends :
          LET l == Head(snd[s].lines) IN
          AtLine(s, "title_update") =>
              /\ Len(chats') = Len(chats)
              /\ \A i \in 1..Len(chats) :
                     /\ chats'[i].id = chats[i].id
                     /\ chats'[i].title =
                            (IF l.name # "" /\ l.content # "" /\ chats[i].id = l.name
                             THEN l.content ELSE chats[i].title)
              /\ UNCHANGED <<messages, streamingMessage, activeTools, isLoading,
                             hasMoreMessages, activeChatId>>
              /\ snd'[s].lines = Tail(snd[s].lines)
              /\ snd'[s].buffer = snd[s].buffer
              /\ snd'[s].term = snd[s].term
              /\ snd'[s].pc = (IF Tail(snd[s].lines) = <<>> THEN "read" ELSE "lines")]_vars

\* chat A was renamed in the middle of a turn whose tokens before and after
\* the event are both in the final message; chat B kept its title
TitleUpdateRenamesOneChatWitness ==
    /\ Finalized(1)
    /\ snd[1].applied = <<Tok("a"), TitleUpdate("A", "t"), Tok("a")>>
    /\ chats = <<[id |-> "A", title |-> "t"], [id |-> "B", title |-> "tB"]>>
    /\ snd[1].aiMsg.content = "aa"

(***************************************************************************)
(* Lines that are no frames.                                               *)
(***************************************************************************)
\* C31: a line that after trimming does not begin with `data:`, or whose
\* payload is empty, changes nothing of the session state and of the locals
\* of the turn; isLoading in particular stays as it is, and the loop goes
\* on with the next line.
NonFrameLineIsSkipped ==
    [][\A s \in Sends :
          (AtLine(s, "comment") \/ AtLine(s, "empty") \/ AtLine(s, "partial")) =>
              /\ UNCHANGED store
              /\ snd'[s] = [snd[s] EXCEPT !.lines = Tail(@),
                                          !.applied = Append(@, Head(snd[s].lines)),
                                          !.pc = IF Tail(snd[s].lines) = <<>> THEN "read"
                                                 ELSE "lines"]]_vars

\* a comment and an empty data line were the first lines of the stream and
\* the request is still shown as pending
NonFrameLineIsSkippedWitness ==
    /\ snd[1].pc \in {"read", "lines"}
    /\ snd[1].applied = <<Comment, EmptyData>>
    /\ isLoading
    /\ streamingMessage = ""

(***************************************************************************)
(* Requests.                                                               *)
(***************************************************************************)
\* C32: no operation sends a request again.  A first-page GET is issued
\* only by a setActiveChat call and an older-page GET only by a
\* loadMoreMessages call, one per call; the answer to a GET, failed or not,
\* issues nothing.  An invocation of sendMessage posts once, at its start
\* (after createChat where there was no chat), and asks for the refresh
\* once, when its stream has ended; when either request is answered the
\* invocation goes on or returns and does not send it again.
NoRequestTwice ==
    [][/\ Cardinality(initReqs' \ initReqs) <= 1
       /\ Cardinality(moreReqs' \ moreReqs) <= 1
       /\ initReqs' \ initReqs # {} =>
             /\ calls'.ops = calls.ops + 1
             /\ moreReqs' = moreReqs
             /\ initReqs \subseteq initReqs'
       /\ moreReqs' \ moreReqs # {} =>
             /\ calls'.more = calls.more + 1
             /\ calls'.fetches = calls.fetches + 1
             /\ initReqs' = initReqs
             /\ moreReqs \subseteq moreReqs'
       /\ calls'.fetches <= calls'.more
       /\ \A s \in Sends :
             /\ (snd[s].pc # "posting" /\ snd'[s].pc = "posting") =>
                    \/ (snd[s].pc \in {"idle", "done", "rejected"} /\ calls'.ops = calls.ops + 1)
                    \/ snd[s].pc = "creating"
             /\ (snd[s].pc = "posting" /\ snd'[s] # snd[s]) => snd'[s].pc \in {"read", "done"}
             /\ (snd[s].pc # "recon" /\ snd'[s].pc = "recon") => snd[s].pc = "read"
             /\ (snd[s].pc = "recon" /\ snd'[s] # snd[s]) => snd'[s].pc = "done"]_vars

\* the older-page fetch, the POST of a later turn and nothing else have
\* failed, and no request is in flight
NoRequestTwiceWitness ==
    /\ calls.lastMore = "failed"
    /\ calls.lastSend = "notok"
    /\ calls.fetches = 1
    /\ calls.ops = 3
    /\ initReqs = {}
    /\ moreReqs = {}
    /\ snd[1].pc = "done"
    /\ ~isLoadingMore

(***************************************************************************)
(* The stash of citations.                                                 *)
(***************************************************************************)
\* C33: citations stashed by a source event for tool n are consumed once:
\* when they are already on an entry for n, a further tool_start of n in
\* the same turn makes an entry without them; and a turn starts with an
\* empty stash.
StashConsumedOnce ==
    [][\A s \in Sends :
          LET n == Head(snd[s].lines).name
              meta == snd[s].pendingToolMeta
          IN /\ (/\ AtLine(s, "tool_start")
                 /\ n \in DOMAIN meta
                 /\ \E i \in 1..Len(activeTools) :
                        activeTools[i].name = n /\ activeTools[i].citations = meta[n]) =>
                    /\ Len(activeTools') = Len(activeTools) + 1
                    /\ Last(activeTools').citations = NoCits
             /\ (snd[s].pc # "posting" /\ snd'[s].pc = "posting") =>
                    snd'[s].pendingToolMeta = EmptyMeta]_vars

(***************************************************************************)
(* Sends that overlap (SpecOverlap).                                       *)
(***************************************************************************)
\* what a buffer can hold that was filled by the tokens of invocation s
\* only, in their order, and emptied at some moment by a later turn
OwnTokens(s) ==
    LET ap == snd[s].applied IN
    {TokenConcat(SubSeq(ap, k, Len(ap))) : k \in 1..(Len(ap) + 1)}

\* C34: when sendMessage is called again while the stream of an earlier
\* call is still open, each turn's assistant message holds tokens and tool
\* entries of its own stream only: no token of the one stream stands in
\* the message of the other turn.
TurnsKeepOwnTokens ==
    \A s \in Sends :
        Finalized(s) =>
            /\ snd[s].aiMsg.content \in OwnTokens(s)
            /\ snd[s].aiMsg.tool_calls = <<>>

\* m is an entry of the window ms
InWindow(m, ms) == \E i \in 1..Len(ms) : ms[i] = m

\* the answers that this step takes are answers for the active chat
SameChatStep ==
    /\ \A r \in initReqs : InitAnswered(r) => r.id = activeChatId
    /\ \A r \in moreReqs : MoreAnswered(r) => r.chat = activeChatId
    /\ \A s \in Sends : ReconAnswered(s) => snd[s].finalChatId = activeChatId

\* C35: the optimistic user message of a turn stays in the window until the
\* refresh of its own turn replaces it: no late answer to an earlier
\* operation on the same chat (the first page of setActiveChat, the refresh
\* of the turn before) removes it.
OptimisticMessageStays ==
    [][\A s \in Sends :
          (/\ snd[s].pc \in {"posting", "read", "lines", "recon"}
           /\ InWindow(snd[s].userMsg, messages)
           /\ ~SwitchStep
           /\ SameChatStep
           /\ ~ReconAnswered(s)) =>
              InWindow(snd[s].userMsg, messages')]_vars

\* C36: in every reachable state isLoading implies that streamingMessage is
\* empty, also when sends overlap.
LoadingMeansEmptyBuffer == isLoading => streamingMessage = ""


\* the invocation is between its first set() and its return: the POST is
\* pending or the body is being read
Sending(s) == snd[s].pc \in {"posting", "read", "lines"}

\* a step in which the invocation leaves the turn: by a return, by the outer
\* catch, or past line 288 into the background refresh
Exits(s) == Sending(s) /\ snd'[s].pc \in {"done", "recon"}

\* C37: every sendMessage call leaves its turn with isLoading false, whichever
\* way it leaves (missing response body, end of the stream, non-OK response,
\* 401, thrown request, thrown read); and whenever no call is in its turn,
\* isLoading is false.
SendEndsNotLoading ==
    [][/\ \A s \in Sends : Exits(s) => isLoading' = FALSE
       /\ (\A s \in Sends : ~Sending(s)') => isLoading' = FALSE]_vars

\* a read error before the first token: the call has returned through the
\* outer catch, which is the only place that cleared isLoading
SendEndsNotLoadingWitness ==
    /\ snd[1].pc = "done"
    /\ calls.lastSend = "ok"
    /\ streamingMessage = "network error"
    /\ ~isLoading

\* C38: the answer to a pagination fetch, whether an empty page, a page with
\* messages or a failure, leaves isLoadingMore false, also when the chat was
\* switched while the fetch was pending; the switch itself leaves the flag
\* and the pending fetch as they are, and while a fetch is pending no other
\* one is started.
LoadingMoreIsReleased ==
    [][/\ \A r \in moreReqs : MoreAnswered(r) => isLoadingMore' = FALSE
       /\ (SwitchStep /\ moreReqs # {}) => (isLoadingMore' /\ moreReqs' = moreReqs)
       /\ moreReqs # {} => moreReqs' \subseteq moreReqs]_vars

\* a page asked for chat A was answered after the switch to chat B, and the
\* flag is down with nothing pending
LoadingMoreIsReleasedWitness ==
    /\ activeChatId = "B"
    /\ calls.page.kind = "older"
    /\ calls.page.count = PageSize
    /\ calls.fetches = 1
    /\ ~isLoadingMore
    /\ moreReqs = {}

(***************************************************************************)
(* Deleting chats (SpecDelete).                                            *)
(***************************************************************************)
\* C39: in every reachable state, no active chat means an empty window.
NoChatMeansNoMessages == activeChatId = None => messages = <<>>
====
